---- MODULE Spec2Model ----
(***************************************************************************)
(* Model of the osm-types crate (src/src/lib.rs): the Element enum, its    *)
(* three records Node / Way / Relation, Id, Member, Info, the accessors    *)
(* and strip_info mutators, and the behaviour the derives give the types   *)
(* (PartialEq / Eq, Ord on Id, Clone, serde Serialize / Deserialize).      *)
(*                                                                         *)
(* Representation of Rust values:                                          *)
(*   Option<T>        None == <<>>, Some(x) == <<x>>                       *)
(*   Id(i64)          the 1-tuple <<n>> (tuple struct, field .0 is [1])    *)
(*   struct           a record with the struct's field names               *)
(*   enum Element     [tag |-> "Node" | "Way" | "Relation", val |-> rec]   *)
(*   Vec<T>           a sequence                                           *)
(*   HashMap<K, V>    a sequence of <<k, v>> entries with distinct keys:   *)
(*                    the order of the entries is the table's internal     *)
(*                    layout, which depends on the insertion history and   *)
(*                    which equality must not observe                      *)
(***************************************************************************)
EXTENDS Integers, Sequences, FiniteSets, TLC

VARIABLES
    e,        \* the Element a caller owns
    orig,     \* ghost: e as it was constructed
    strips,   \* ghost: number of Element::strip_info calls made on e
    first,    \* ghost: Some(e) right after the first Element::strip_info
    rec,      \* the record wrapped by orig, held narrowed (not wrapped)
    rstrips,  \* ghost: number of record-level strip_info calls made on rec
    rfirst,   \* ghost: Some(rec) right after the first record-level strip_info
    res,      \* Some(results of the read accessors called on e), or None
    cl,       \* Some(clone of e), or None
    cstrips,  \* ghost: number of strip_info calls made on the clone
    ser,      \* Some(serialized form of e), or None
    de,       \* Some(result of deserializing ser), or None
    m1, m2,   \* two tag mappings under construction
    ida, idb, idc,  \* three identifiers
    ord       \* Some(results of comparing the identifiers), or None

vars == <<e, orig, strips, first, rec, rstrips, rfirst, res, cl, cstrips,
          ser, de, m1, m2, ida, idb, idc, ord>>

elemVars  == <<e, orig, strips, first, rec, rstrips, rfirst, res>>
cloneVars == <<cl, cstrips>>
serdeVars == <<ser, de>>
tagVars   == <<m1, m2>>
idVars    == <<ida, idb, idc, ord>>

-----------------------------------------------------------------------------
(* Bounds of the model *)

MaxStrips  == 2   \* strip_info calls made on one value
MaxRefs    == 3   \* length of Way.refs
MaxMembers == 2   \* length of Relation.members
MaxTags    == 2   \* entries of a tag mapping
MaxId      == 3   \* identifiers compared range over -MaxId .. MaxId

-----------------------------------------------------------------------------
(* Option<T> *)

None == <<>>
Some(x) == <<x>>
IsSome(o) == Len(o) = 1
IsNone(o) == Len(o) = 0
Unwrap(o) == o[1]
Option(S) == {None} \cup {Some(x) : x \in S}

RECURSIVE SeqsUpTo(_, _)
SeqsUpTo(S, n) ==
    IF n = 0 THEN {<<>>}
    ELSE LET shorter == SeqsUpTo(S, n - 1)
         IN  shorter \cup {Append(s, x) : s \in {t \in shorter : Len(t) = n - 1}, x \in S}

Range(s) == {s[i] : i \in DOMAIN s}

-----------------------------------------------------------------------------
(* Id: pub struct Id(pub i64), with derived PartialEq, Eq, PartialOrd, Ord *)

Id(n) == <<n>>

\* derived PartialEq: the fields are compared
Id_eq(a, b) == a[1] = b[1]

\* a comparison of the wrapped values as unsigned bit patterns
Id_cmp_unsigned(a, b) ==
    LET u(x) == IF x < 0 THEN x + 65536 ELSE x
    IN  IF u(a[1]) < u(b[1]) THEN "Less"
        ELSE IF u(a[1]) = u(b[1]) THEN "Equal" ELSE "Greater"

\* derived Ord: lexicographic over the fields, here the single i64
Id_cmp(a, b) ==
    IF a[1] < b[1] THEN "Less"
    ELSE IF a[1] = b[1] THEN "Equal" ELSE "Greater"

IdValues == {Id(n) : n \in (0 - MaxId) .. MaxId}

-----------------------------------------------------------------------------
(* HashMap<KString, KString> (fnv::FnvHashMap) *)

TagKeys == {"name", "highway", "amenity"}
TagVals == {"A", "B"}

HashMap_new == <<>>

HashMap_get(m, k) ==
    LET hit == {i \in DOMAIN m : m[i][1] = k}
    IN  IF hit = {} THEN None ELSE Some(m[CHOOSE i \in hit : TRUE][2])

\* insert replaces the value of a key already present and adds the entry otherwise
HashMap_insert(m, k, v) ==
    IF IsSome(HashMap_get(m, k))
    THEN [i \in DOMAIN m |-> IF m[i][1] = k THEN <<k, v>> ELSE m[i]]
    ELSE Append(m, <<k, v>>)

\* PartialEq of HashMap: equal lengths, and every entry of a is found in b
HashMap_eq(a, b) ==
    /\ Len(a) = Len(b)
    /\ \A i \in DOMAIN a : HashMap_get(b, a[i][1]) = Some(a[i][2])

\* Clone of HashMap: a new table with the same entries
HashMap_clone(m) == [i \in DOMAIN m |-> <<m[i][1], m[i][2]>>]

\* the key/value pairs a mapping holds
Pairs(m) == Range(m)

DistinctKeys(m) == \A i, j \in DOMAIN m : m[i][1] = m[j][1] => i = j

TagMaps == {m \in SeqsUpTo(TagKeys \X TagVals, MaxTags) : DistinctKeys(m)}

-----------------------------------------------------------------------------
(* Info *)

Info(version, timestamp, changeset, uid, user, visible) ==
    [version |-> version, timestamp |-> timestamp, changeset |-> changeset,
     uid |-> uid, user |-> user, visible |-> visible]

\* derived PartialEq: field by field
Info_eq(a, b) ==
    /\ a.version = b.version
    /\ a.timestamp = b.timestamp
    /\ a.changeset = b.changeset
    /\ a.uid = b.uid
    /\ a.user = b.user
    /\ a.visible = b.visible

\* derived Clone: field by field
Info_clone(i) ==
    Info(i.version, i.timestamp, i.changeset, i.uid, i.user, i.visible)

InfoSet ==
    {Info(1, t[1], t[2], t[3], t[4], v) :
        t \in {<<None, None, None, None>>,
               <<Some("2020-01-02T03:04:05"), Some(77), Some(42), Some("alice")>>,
               <<None, Some(77), Some(42), None>>},
        v \in Option(BOOLEAN)}

\* Option<Info>: PartialEq and Clone of Option
OptionInfo_eq(a, b) ==
    IF IsSome(a) /\ IsSome(b) THEN Info_eq(Unwrap(a), Unwrap(b))
    ELSE IsNone(a) /\ IsNone(b)

OptionInfo_clone(o) == IF IsSome(o) THEN Some(Info_clone(Unwrap(o))) ELSE None

-----------------------------------------------------------------------------
(* MemberType and Member *)

MemberType == {"Node", "Way", "Relation"}

Member(id, ty, role) == [id |-> id, ty |-> ty, role |-> role]

Member_eq(a, b) == Id_eq(a.id, b.id) /\ a.ty = b.ty /\ a.role = b.role

Member_clone(m) == Member(m.id, m.ty, m.role)

MemberSet ==
    {Member(Id(1), "Node", Some("outer")),
     Member(Id(2), "Way", None),
     Member(Id(1), "Relation", Some("inner"))}

-----------------------------------------------------------------------------
(* Node, Way, Relation *)

\* rust_decimal::Decimal: an integer and the number of its decimal places
Decimal(num, scale) == [num |-> num, scale |-> scale]

Node(id, tags, info, lat, lon) ==
    [id |-> id, tags |-> tags, info |-> info, lat |-> lat, lon |-> lon]

Way(id, tags, info, refs) ==
    [id |-> id, tags |-> tags, info |-> info, refs |-> refs]

Relation(id, tags, info, members) ==
    [id |-> id, tags |-> tags, info |-> info, members |-> members]

\* PartialEq of Vec: equal lengths and equal elements at every position
VecId_eq(a, b) ==
    Len(a) = Len(b) /\ \A i \in DOMAIN a : Id_eq(a[i], b[i])

VecMember_eq(a, b) ==
    Len(a) = Len(b) /\ \A i \in DOMAIN a : Member_eq(a[i], b[i])

\* a comparison of the tags as lists of pairs, in their stored order
Node_eq_ordered(a, b) ==
    /\ Id_eq(a.id, b.id)
    /\ a.tags = b.tags
    /\ OptionInfo_eq(a.info, b.info)
    /\ a.lat = b.lat
    /\ a.lon = b.lon

\* derived PartialEq of Node
Node_eq(a, b) ==
    /\ Id_eq(a.id, b.id)
    /\ HashMap_eq(a.tags, b.tags)
    /\ OptionInfo_eq(a.info, b.info)
    /\ a.lat = b.lat
    /\ a.lon = b.lon

\* derived PartialEq of Way
Way_eq(a, b) ==
    /\ Id_eq(a.id, b.id)
    /\ HashMap_eq(a.tags, b.tags)
    /\ OptionInfo_eq(a.info, b.info)
    /\ VecId_eq(a.refs, b.refs)

\* derived PartialEq of Relation
Relation_eq(a, b) ==
    /\ Id_eq(a.id, b.id)
    /\ HashMap_eq(a.tags, b.tags)
    /\ OptionInfo_eq(a.info, b.info)
    /\ VecMember_eq(a.members, b.members)

\* Node::strip_info that leaves the Info in place
Node_strip_info_noop(n) == n

\* Node::strip_info
Node_strip_info(n) == [n EXCEPT !.info = None]

\* Way::strip_info
Way_strip_info(w) == [w EXCEPT !.info = None]

\* Relation::strip_info
Relation_strip_info(r) == [r EXCEPT !.info = None]

-----------------------------------------------------------------------------
(* Element *)

Element_Node(n) == [tag |-> "Node", val |-> n]
Element_Way(w) == [tag |-> "Way", val |-> w]
Element_Relation(r) == [tag |-> "Relation", val |-> r]

\* derived PartialEq of Element: same variant and equal wrapped records
Element_eq(a, b) ==
    /\ a.tag = b.tag
    /\ CASE a.tag = "Node" -> Node_eq(a.val, b.val)
         [] a.tag = "Way" -> Way_eq(a.val, b.val)
         [] a.tag = "Relation" -> Relation_eq(a.val, b.val)

\* id() that reads the id only of a Node
Element_id_node_only(x) ==
    CASE x.tag = "Node" -> x.val.id
      [] x.tag = "Way" -> Id(0)
      [] x.tag = "Relation" -> Id(0)

\* Element::id
Element_id(x) ==
    CASE x.tag = "Node" -> x.val.id
      [] x.tag = "Way" -> x.val.id
      [] x.tag = "Relation" -> x.val.id

\* Element::tags
Element_tags(x) ==
    CASE x.tag = "Node" -> x.val.tags
      [] x.tag = "Way" -> x.val.tags
      [] x.tag = "Relation" -> x.val.tags

\* Element::info (Option::as_ref keeps presence and content)
Element_info(x) ==
    CASE x.tag = "Node" -> x.val.info
      [] x.tag = "Way" -> x.val.info
      [] x.tag = "Relation" -> x.val.info

\* strip_info that clears the tags along with the Info
Element_strip_info_and_tags(x) ==
    [x EXCEPT !.val.info = None, !.val.tags = HashMap_new]

\* strip_info that reaches the Info of a Node only
Element_strip_info_node_only(x) ==
    IF x.tag = "Node" THEN [x EXCEPT !.val.info = None] ELSE x

\* Element::strip_info
Element_strip_info(x) ==
    CASE x.tag = "Node" -> [x EXCEPT !.val.info = None]
      [] x.tag = "Way" -> [x EXCEPT !.val.info = None]
      [] x.tag = "Relation" -> [x EXCEPT !.val.info = None]

\* as_node that narrows any variant
Element_as_node_any(x) == Some(x.val)

\* Element::as_node
Element_as_node(x) == IF x.tag = "Node" THEN Some(x.val) ELSE None

\* Element::as_way
Element_as_way(x) == IF x.tag = "Way" THEN Some(x.val) ELSE None

\* Element::as_relation
Element_as_relation(x) == IF x.tag = "Relation" THEN Some(x.val) ELSE None

-----------------------------------------------------------------------------
(* The values a caller can construct: every field is public and no
   constructor validates, so any combination of field values is a value *)

ElementIds == {Id(0 - 1), Id(7)}

ElementTags ==
    {m \in TagMaps : Pairs(m) \subseteq {<<"name", "A">>, <<"highway", "B">>}}

Coordinates ==
    {<<Decimal(515, 1), Decimal(0 - 1, 1)>>,
     <<Decimal(0, 0), Decimal(1800000000, 7)>>}

RefIds == {Id(5), Id(9)}

NodeSet ==
    {Node(i, t, o, c[1], c[2]) :
        i \in ElementIds, t \in ElementTags, o \in Option(InfoSet), c \in Coordinates}

WaySet ==
    {Way(i, t, o, r) :
        i \in ElementIds, t \in ElementTags, o \in Option(InfoSet),
        r \in SeqsUpTo(RefIds, MaxRefs)}

RelationSet ==
    {Relation(i, t, o, m) :
        i \in ElementIds, t \in ElementTags, o \in Option(InfoSet),
        m \in SeqsUpTo(MemberSet, MaxMembers)}

ElementSet ==
    {Element_Node(n) : n \in NodeSet}
        \cup {Element_Way(w) : w \in WaySet}
        \cup {Element_Relation(r) : r \in RelationSet}

\* the Element that wraps record r as the variant named tag
Wrap(tag, r) ==
    CASE tag = "Node" -> Element_Node(r)
      [] tag = "Way" -> Element_Way(r)
      [] tag = "Relation" -> Element_Relation(r)

-----------------------------------------------------------------------------
(* Initial states *)

ElemIdle ==
    /\ strips = 0 /\ first = None
    /\ rec = e.val /\ rstrips = 0 /\ rfirst = None
    /\ res = None
    /\ orig = e

CloneIdle == cl = None /\ cstrips = 0
SerdeIdle == ser = None /\ de = None
TagIdle == m1 = HashMap_new /\ m2 = HashMap_new
IdIdle == ida = Id(0) /\ idb = Id(0) /\ idc = Id(0) /\ ord = None

DefaultElement ==
    Element_Node(Node(Id(7), HashMap_new, None, Decimal(0, 0), Decimal(0, 0)))

\* a caller constructs any Element
Init ==
    /\ e \in ElementSet
    /\ ElemIdle /\ CloneIdle /\ SerdeIdle /\ TagIdle /\ IdIdle

-----------------------------------------------------------------------------
(* Accessors and strip_info on an Element and on its narrowed record *)

\* e.strip_info()
StripInfo ==
    /\ strips < MaxStrips
    /\ e' = Element_strip_info(e)
    /\ strips' = strips + 1
    /\ first' = IF strips = 0 THEN Some(e') ELSE first
    /\ res' = None
    /\ UNCHANGED <<orig, rec, rstrips, rfirst>>
    /\ UNCHANGED <<cloneVars, serdeVars, tagVars, idVars>>

\* n.strip_info() on the narrowed Node
NodeStripInfo ==
    /\ orig.tag = "Node"
    /\ rstrips < MaxStrips
    /\ rec' = Node_strip_info(rec)
    /\ rstrips' = rstrips + 1
    /\ rfirst' = IF rstrips = 0 THEN Some(rec') ELSE rfirst
    /\ UNCHANGED <<e, orig, strips, first, res>>
    /\ UNCHANGED <<cloneVars, serdeVars, tagVars, idVars>>

\* w.strip_info() on the narrowed Way
WayStripInfo ==
    /\ orig.tag = "Way"
    /\ rstrips < MaxStrips
    /\ rec' = Way_strip_info(rec)
    /\ rstrips' = rstrips + 1
    /\ rfirst' = IF rstrips = 0 THEN Some(rec') ELSE rfirst
    /\ UNCHANGED <<e, orig, strips, first, res>>
    /\ UNCHANGED <<cloneVars, serdeVars, tagVars, idVars>>

\* r.strip_info() on the narrowed Relation
RelationStripInfo ==
    /\ orig.tag = "Relation"
    /\ rstrips < MaxStrips
    /\ rec' = Relation_strip_info(rec)
    /\ rstrips' = rstrips + 1
    /\ rfirst' = IF rstrips = 0 THEN Some(rec') ELSE rfirst
    /\ UNCHANGED <<e, orig, strips, first, res>>
    /\ UNCHANGED <<cloneVars, serdeVars, tagVars, idVars>>

\* the six read accessors, all taking &self, called on e
Access ==
    /\ res = None
    /\ res' = Some([id |-> Element_id(e),
                    tags |-> Element_tags(e),
                    info |-> Element_info(e),
                    as_node |-> Element_as_node(e),
                    as_way |-> Element_as_way(e),
                    as_relation |-> Element_as_relation(e)])
    /\ UNCHANGED <<e, orig, strips, first, rec, rstrips, rfirst>>
    /\ UNCHANGED <<cloneVars, serdeVars, tagVars, idVars>>

Next ==
    \/ StripInfo
    \/ NodeStripInfo
    \/ WayStripInfo
    \/ RelationStripInfo
    \/ Access

Spec == Init /\ [][Next]_vars

-----------------------------------------------------------------------------
(* Claims about the accessors and strip_info *)

\* C1: as_node() is present iff the Element is the Node variant and is then
\* exactly the wrapped record; likewise as_way() for Way and as_relation()
\* for Relation; a request of another kind yields None, never a failure.
C1_Narrowing ==
    IsSome(res) =>
        LET r == Unwrap(res) IN
        /\ IsSome(r.as_node) <=> e.tag = "Node"
        /\ IsSome(r.as_way) <=> e.tag = "Way"
        /\ IsSome(r.as_relation) <=> e.tag = "Relation"
        /\ r.as_node = IF e.tag = "Node" THEN Some(e.val) ELSE None
        /\ r.as_way = IF e.tag = "Way" THEN Some(e.val) ELSE None
        /\ r.as_relation = IF e.tag = "Relation" THEN Some(e.val) ELSE None

\* the accessors were called on a Way with refs and Info: only as_way is present
C1_Witness ==
    /\ IsSome(res)
    /\ e.tag = "Way"
    /\ Len(e.val.refs) >= 2
    /\ IsSome(e.val.info)
    /\ IsSome(Unwrap(res).as_way)
    /\ IsNone(Unwrap(res).as_node)
    /\ IsNone(Unwrap(res).as_relation)

\* C2: strip_info is idempotent: after one or more calls info() is absent
\* and the value equals the value after the first call, for an Element of
\* any variant and for the Node, Way and Relation records.
C2_StripIdempotent ==
    /\ strips >= 1 =>
        /\ IsNone(Element_info(e))
        /\ e = Unwrap(first)
        /\ Element_eq(e, Unwrap(first))
    /\ rstrips >= 1 =>
        /\ IsNone(rec.info)
        /\ rec = Unwrap(rfirst)
        /\ Element_eq(Wrap(orig.tag, rec), Wrap(orig.tag, Unwrap(rfirst)))

\* strip_info was called twice on an Element that had an Info, and twice on its record
C2_Witness ==
    /\ strips = 2
    /\ rstrips = 2
    /\ IsSome(Element_info(orig))
    /\ IsNone(Element_info(e))
    /\ IsNone(rec.info)

\* C3: Element::strip_info changes nothing but the Info: the variant, id(),
\* tags() and the kind-specific data (lat / lon, refs in order, members in
\* order) are as before, and the result is again a well-formed Element.
C3_StripFrame ==
    strips >= 1 =>
        /\ e.tag = orig.tag
        /\ Element_id(e) = Element_id(orig)
        /\ Element_tags(e) = Element_tags(orig)
        /\ e.tag = "Node" => e.val.lat = orig.val.lat /\ e.val.lon = orig.val.lon
        /\ e.tag = "Way" => e.val.refs = orig.val.refs
        /\ e.tag = "Relation" => e.val.members = orig.val.members
        /\ e \in ElementSet
        /\ e = [orig EXCEPT !.val.info = None]

\* a Relation with tags, members and an Info was stripped
C3_Witness ==
    /\ strips >= 1
    /\ e.tag = "Relation"
    /\ Len(e.val.members) = 2
    /\ Len(e.val.tags) = 2
    /\ IsSome(orig.val.info)
    /\ e # orig

\* C4: id(), tags() and info() return the id, the tag mapping and the Info
\* of the wrapped record for each variant (info() present iff the record's
\* is), always return, and leave the Element as it was.
C4_Accessors ==
    /\ IsSome(res) =>
        LET r == Unwrap(res) IN
        /\ r.id = e.val.id
        /\ r.tags = e.val.tags
        /\ IsSome(r.info) <=> IsSome(e.val.info)
        /\ IsSome(r.info) => Unwrap(r.info) = Unwrap(e.val.info)
        /\ r.id \in ElementIds
    /\ strips = 0 => e = orig

\* the accessors were called on a Relation that has tags and an Info
C4_Witness ==
    /\ IsSome(res)
    /\ e.tag = "Relation"
    /\ Len(e.val.tags) >= 1
    /\ IsSome(Unwrap(res).info)
    /\ Unwrap(res).id = Id(7)

\* C10: Element::strip_info agrees with the record-level strip_info of the
\* wrapped kind: stripping the Element yields the same value as wrapping the
\* stripped record, for Node, Way and Relation.
C10_StripAgrees ==
    (strips >= 1 /\ rstrips >= 1) =>
        /\ e = Wrap(orig.tag, rec)
        /\ Element_eq(e, Wrap(orig.tag, rec))
        /\ Unwrap(first) = Wrap(orig.tag, Unwrap(rfirst))

\* a Way with an Info was stripped both as an Element and as a record
C10_Witness ==
    /\ strips >= 1
    /\ rstrips >= 1
    /\ orig.tag = "Way"
    /\ IsSome(orig.val.info)
    /\ Len(rec.refs) >= 1

-----------------------------------------------------------------------------
(* Clone (derived on every type): the variant is matched and every field of
   the wrapped record is cloned into a new value *)

VecId_clone(v) == [i \in DOMAIN v |-> Id(v[i][1])]

VecMember_clone(v) == [i \in DOMAIN v |-> Member_clone(v[i])]

Node_clone(n) ==
    Node(n.id, HashMap_clone(n.tags), OptionInfo_clone(n.info), n.lat, n.lon)

Way_clone(w) ==
    Way(w.id, HashMap_clone(w.tags), OptionInfo_clone(w.info), VecId_clone(w.refs))

\* a clone that collects the members back to front
Relation_clone_reversed(r) ==
    Relation(r.id, HashMap_clone(r.tags), OptionInfo_clone(r.info),
             [i \in DOMAIN r.members |-> Member_clone(r.members[Len(r.members) + 1 - i])])

Relation_clone(r) ==
    Relation(r.id, HashMap_clone(r.tags), OptionInfo_clone(r.info),
             VecMember_clone(r.members))

Element_clone(x) ==
    CASE x.tag = "Node" -> Element_Node(Node_clone(x.val))
      [] x.tag = "Way" -> Element_Way(Way_clone(x.val))
      [] x.tag = "Relation" -> Element_Relation(Relation_clone(x.val))

\* let c = e.clone()
Clone ==
    /\ IsNone(cl)
    /\ cl' = Some(Element_clone(e))
    /\ cstrips' = 0
    /\ UNCHANGED <<elemVars, serdeVars, tagVars, idVars>>

\* c.strip_info() on the clone
CloneStripInfo ==
    /\ IsSome(cl)
    /\ cstrips < MaxStrips
    /\ cl' = Some(Element_strip_info(Unwrap(cl)))
    /\ cstrips' = cstrips + 1
    /\ UNCHANGED <<elemVars, serdeVars, tagVars, idVars>>

NextClone ==
    \/ Clone
    \/ CloneStripInfo
    \/ StripInfo

SpecClone == Init /\ [][NextClone]_vars

\* C7: cloning an Element gives an equal, independent deep copy: the clone
\* has the same variant, id, tags, info and kind-specific data, with refs and
\* members in the same order; a later strip_info on the clone leaves the
\* original as it is, and a strip_info on the original leaves the clone.
C7_CloneIndependent ==
    [][/\ (IsNone(cl) /\ IsSome(cl')) =>
            /\ e' = e
            /\ Element_eq(Unwrap(cl'), e)
            /\ Unwrap(cl').tag = e.tag
            /\ Unwrap(cl').val = e.val
       /\ (IsSome(cl) /\ cl' # cl) => e' = e
       /\ (e' # e) => cl' = cl]_vars

\* a Relation with two members and an Info was cloned and the clone stripped,
\* and the original still has its Info
C7_Witness ==
    /\ IsSome(cl)
    /\ cstrips >= 1
    /\ e.tag = "Relation"
    /\ Len(e.val.members) = 2
    /\ e.val.members[1] # e.val.members[2]
    /\ IsSome(Element_info(e))
    /\ IsNone(Element_info(Unwrap(cl)))

-----------------------------------------------------------------------------
(* serde::Serialize / serde::Deserialize (derived on every type).
   A serialized value is a tree of the serde data model:
     <<"i32", n>>  <<"i64", n>>  <<"bool", b>>  <<"str", s>>
     <<"none">>  <<"some", v>>
     <<"newtype_struct", name, v>>
     <<"seq", <<v, ...>>>>
     <<"map", << <<k, v>>, ... >>>>
     <<"struct", name, << <<field, v>>, ... >>>>
     <<"unit_variant", enum, variant>>
     <<"newtype_variant", enum, variant, v>>
   Deserializing gives Ok(value) or Err(message). *)

Ok(v) == <<"Ok", v>>
Err(msg) == <<"Err", msg>>
IsOk(r) == r[1] = "Ok"

i32_serialize(n) == <<"i32", n>>
i64_serialize(n) == <<"i64", n>>
bool_serialize(b) == <<"bool", b>>
\* KString and NaiveDateTime are written as their text
str_serialize(t) == <<"str", t>>
\* Decimal is written as its text, which its digits and scale determine
Decimal_serialize(d) == <<"str", d>>

\* Option<T>, given the Option of the serialized content
Option_serialize(o) ==
    IF IsSome(o) THEN <<"some", Unwrap(o)>> ELSE <<"none">>

Id_serialize(id) == <<"newtype_struct", "Id", i64_serialize(id[1])>>

HashMap_serialize(m) ==
    <<"map", [i \in DOMAIN m |-> <<str_serialize(m[i][1]), str_serialize(m[i][2])>>]>>

\* a serializer that writes an absent visible as the value it is assumed to have
Info_serialize_visible_default(i) ==
    <<"struct", "Info",
      << <<"version", i32_serialize(i.version)>>,
         <<"timestamp", Option_serialize([k \in DOMAIN i.timestamp |-> str_serialize(i.timestamp[k])])>>,
         <<"changeset", Option_serialize([k \in DOMAIN i.changeset |-> i64_serialize(i.changeset[k])])>>,
         <<"uid", Option_serialize([k \in DOMAIN i.uid |-> i32_serialize(i.uid[k])])>>,
         <<"user", Option_serialize([k \in DOMAIN i.user |-> str_serialize(i.user[k])])>>,
         <<"visible", <<"some", bool_serialize(IF IsSome(i.visible)
                                               THEN Unwrap(i.visible) ELSE TRUE)>>>> >>>>

Info_serialize(i) ==
    <<"struct", "Info",
      << <<"version", i32_serialize(i.version)>>,
         <<"timestamp", Option_serialize([k \in DOMAIN i.timestamp |-> str_serialize(i.timestamp[k])])>>,
         <<"changeset", Option_serialize([k \in DOMAIN i.changeset |-> i64_serialize(i.changeset[k])])>>,
         <<"uid", Option_serialize([k \in DOMAIN i.uid |-> i32_serialize(i.uid[k])])>>,
         <<"user", Option_serialize([k \in DOMAIN i.user |-> str_serialize(i.user[k])])>>,
         <<"visible", Option_serialize([k \in DOMAIN i.visible |-> bool_serialize(i.visible[k])])>> >>>>

MemberType_serialize(t) == <<"unit_variant", "MemberType", t>>

Member_serialize(m) ==
    <<"struct", "Member",
      << <<"id", Id_serialize(m.id)>>,
         <<"ty", MemberType_serialize(m.ty)>>,
         <<"role", Option_serialize([k \in DOMAIN m.role |-> str_serialize(m.role[k])])>> >>>>

Node_serialize(n) ==
    <<"struct", "Node",
      << <<"id", Id_serialize(n.id)>>,
         <<"tags", HashMap_serialize(n.tags)>>,
         <<"info", Option_serialize([k \in DOMAIN n.info |-> Info_serialize(n.info[k])])>>,
         <<"lat", Decimal_serialize(n.lat)>>,
         <<"lon", Decimal_serialize(n.lon)>> >>>>

Way_serialize(w) ==
    <<"struct", "Way",
      << <<"id", Id_serialize(w.id)>>,
         <<"tags", HashMap_serialize(w.tags)>>,
         <<"info", Option_serialize([k \in DOMAIN w.info |-> Info_serialize(w.info[k])])>>,
         <<"refs", <<"seq", [i \in DOMAIN w.refs |-> Id_serialize(w.refs[i])]>>>> >>>>

Relation_serialize(r) ==
    <<"struct", "Relation",
      << <<"id", Id_serialize(r.id)>>,
         <<"tags", HashMap_serialize(r.tags)>>,
         <<"info", Option_serialize([k \in DOMAIN r.info |-> Info_serialize(r.info[k])])>>,
         <<"members",
           <<"seq", [i \in DOMAIN r.members |-> Member_serialize(r.members[i])]>>>> >>>>

Element_serialize(x) ==
    CASE x.tag = "Node" -> <<"newtype_variant", "Element", "Node", Node_serialize(x.val)>>
      [] x.tag = "Way" -> <<"newtype_variant", "Element", "Way", Way_serialize(x.val)>>
      [] x.tag = "Relation" ->
            <<"newtype_variant", "Element", "Relation", Relation_serialize(x.val)>>

(* Deserialize: T_accepts(v) says that the generated visitor of T reads the
   tree v without an error, and T_from(v) is the value it then builds *)

i32_accepts(v) == v[1] = "i32"
i32_from(v) == v[2]
i64_accepts(v) == v[1] = "i64"
i64_from(v) == v[2]
bool_accepts(v) == v[1] = "bool"
bool_from(v) == v[2]
str_accepts(v) == v[1] = "str"
str_from(v) == v[2]
Decimal_accepts(v) == v[1] = "str"
Decimal_from(v) == v[2]

\* Option<T>: none is None, some is Some of the content deserialized
OptionI32_accepts(v) ==
    \/ v[1] = "none"
    \/ v[1] = "some" /\ i32_accepts(v[2])
OptionI32_from(v) ==
    IF v[1] = "none" THEN None ELSE Some(i32_from(v[2]))
OptionI64_accepts(v) ==
    \/ v[1] = "none"
    \/ v[1] = "some" /\ i64_accepts(v[2])
OptionI64_from(v) ==
    IF v[1] = "none" THEN None ELSE Some(i64_from(v[2]))
OptionBool_accepts(v) ==
    \/ v[1] = "none"
    \/ v[1] = "some" /\ bool_accepts(v[2])
OptionBool_from(v) ==
    IF v[1] = "none" THEN None ELSE Some(bool_from(v[2]))
OptionStr_accepts(v) ==
    \/ v[1] = "none"
    \/ v[1] = "some" /\ str_accepts(v[2])
OptionStr_from(v) ==
    IF v[1] = "none" THEN None ELSE Some(str_from(v[2]))

\* how many times a serialized struct gives field name: the generated
\* visitor rejects a field given twice, and a required field not given;
\* a field of type Option that is not given is None
Given(fields, name) == Cardinality({i \in DOMAIN fields : fields[i][1] = name})

FieldOf(fields, name) == fields[CHOOSE i \in DOMAIN fields : fields[i][1] = name][2]

Id_accepts(v) == v[1] = "newtype_struct" /\ i64_accepts(v[3])
Id_from(v) == Id(i64_from(v[3]))

\* Vec<Id>: the elements in the order they are read
VecId_accepts(v) ==
    v[1] = "seq" /\ \A i \in DOMAIN v[2] : Id_accepts(v[2][i])
VecId_from(v) == [i \in DOMAIN v[2] |-> Id_from(v[2][i])]

\* HashMap: every entry read is inserted into an empty map
RECURSIVE Entries_insert(_, _)
Entries_insert(entries, acc) ==
    IF Len(entries) = 0 THEN acc
    ELSE Entries_insert(Tail(entries),
                        HashMap_insert(acc, str_from(Head(entries)[1]),
                                       str_from(Head(entries)[2])))

HashMap_accepts(v) ==
    /\ v[1] = "map"
    /\ \A i \in DOMAIN v[2] : str_accepts(v[2][i][1]) /\ str_accepts(v[2][i][2])
HashMap_from(v) == Entries_insert(v[2], HashMap_new)

Info_accepts(v) ==
    /\ v[1] = "struct"
    /\ Given(v[3], "version") = 1 /\ i32_accepts(FieldOf(v[3], "version"))
    /\ \/ Given(v[3], "timestamp") = 0
       \/ Given(v[3], "timestamp") = 1 /\ OptionStr_accepts(FieldOf(v[3], "timestamp"))
    /\ \/ Given(v[3], "changeset") = 0
       \/ Given(v[3], "changeset") = 1 /\ OptionI64_accepts(FieldOf(v[3], "changeset"))
    /\ \/ Given(v[3], "uid") = 0
       \/ Given(v[3], "uid") = 1 /\ OptionI32_accepts(FieldOf(v[3], "uid"))
    /\ \/ Given(v[3], "user") = 0
       \/ Given(v[3], "user") = 1 /\ OptionStr_accepts(FieldOf(v[3], "user"))
    /\ \/ Given(v[3], "visible") = 0
       \/ Given(v[3], "visible") = 1 /\ OptionBool_accepts(FieldOf(v[3], "visible"))
Info_from(v) ==
    Info(i32_from(FieldOf(v[3], "version")),
         IF Given(v[3], "timestamp") = 0 THEN None
         ELSE OptionStr_from(FieldOf(v[3], "timestamp")),
         IF Given(v[3], "changeset") = 0 THEN None
         ELSE OptionI64_from(FieldOf(v[3], "changeset")),
         IF Given(v[3], "uid") = 0 THEN None
         ELSE OptionI32_from(FieldOf(v[3], "uid")),
         IF Given(v[3], "user") = 0 THEN None
         ELSE OptionStr_from(FieldOf(v[3], "user")),
         IF Given(v[3], "visible") = 0 THEN None
         ELSE OptionBool_from(FieldOf(v[3], "visible")))

OptionInfo_accepts(v) ==
    \/ v[1] = "none"
    \/ v[1] = "some" /\ Info_accepts(v[2])
OptionInfo_from(v) ==
    IF v[1] = "none" THEN None ELSE Some(Info_from(v[2]))

MemberType_accepts(v) == v[1] = "unit_variant" /\ v[3] \in MemberType
MemberType_from(v) == v[3]

Member_accepts(v) ==
    /\ v[1] = "struct"
    /\ Given(v[3], "id") = 1 /\ Id_accepts(FieldOf(v[3], "id"))
    /\ Given(v[3], "ty") = 1 /\ MemberType_accepts(FieldOf(v[3], "ty"))
    /\ \/ Given(v[3], "role") = 0
       \/ Given(v[3], "role") = 1 /\ OptionStr_accepts(FieldOf(v[3], "role"))
Member_from(v) ==
    Member(Id_from(FieldOf(v[3], "id")),
         MemberType_from(FieldOf(v[3], "ty")),
         IF Given(v[3], "role") = 0 THEN None
         ELSE OptionStr_from(FieldOf(v[3], "role")))

\* Vec<Member>: the elements in the order they are read
VecMember_accepts(v) ==
    v[1] = "seq" /\ \A i \in DOMAIN v[2] : Member_accepts(v[2][i])
VecMember_from(v) == [i \in DOMAIN v[2] |-> Member_from(v[2][i])]

Node_accepts(v) ==
    /\ v[1] = "struct"
    /\ Given(v[3], "id") = 1 /\ Id_accepts(FieldOf(v[3], "id"))
    /\ Given(v[3], "tags") = 1 /\ HashMap_accepts(FieldOf(v[3], "tags"))
    /\ \/ Given(v[3], "info") = 0
       \/ Given(v[3], "info") = 1 /\ OptionInfo_accepts(FieldOf(v[3], "info"))
    /\ Given(v[3], "lat") = 1 /\ Decimal_accepts(FieldOf(v[3], "lat"))
    /\ Given(v[3], "lon") = 1 /\ Decimal_accepts(FieldOf(v[3], "lon"))
Node_from(v) ==
    Node(Id_from(FieldOf(v[3], "id")),
         HashMap_from(FieldOf(v[3], "tags")),
         IF Given(v[3], "info") = 0 THEN None
         ELSE OptionInfo_from(FieldOf(v[3], "info")),
         Decimal_from(FieldOf(v[3], "lat")),
         Decimal_from(FieldOf(v[3], "lon")))

Way_accepts(v) ==
    /\ v[1] = "struct"
    /\ Given(v[3], "id") = 1 /\ Id_accepts(FieldOf(v[3], "id"))
    /\ Given(v[3], "tags") = 1 /\ HashMap_accepts(FieldOf(v[3], "tags"))
    /\ \/ Given(v[3], "info") = 0
       \/ Given(v[3], "info") = 1 /\ OptionInfo_accepts(FieldOf(v[3], "info"))
    /\ Given(v[3], "refs") = 1 /\ VecId_accepts(FieldOf(v[3], "refs"))
Way_from(v) ==
    Way(Id_from(FieldOf(v[3], "id")),
         HashMap_from(FieldOf(v[3], "tags")),
         IF Given(v[3], "info") = 0 THEN None
         ELSE OptionInfo_from(FieldOf(v[3], "info")),
         VecId_from(FieldOf(v[3], "refs")))

Relation_accepts(v) ==
    /\ v[1] = "struct"
    /\ Given(v[3], "id") = 1 /\ Id_accepts(FieldOf(v[3], "id"))
    /\ Given(v[3], "tags") = 1 /\ HashMap_accepts(FieldOf(v[3], "tags"))
    /\ \/ Given(v[3], "info") = 0
       \/ Given(v[3], "info") = 1 /\ OptionInfo_accepts(FieldOf(v[3], "info"))
    /\ Given(v[3], "members") = 1 /\ VecMember_accepts(FieldOf(v[3], "members"))
Relation_from(v) ==
    Relation(Id_from(FieldOf(v[3], "id")),
         HashMap_from(FieldOf(v[3], "tags")),
         IF Given(v[3], "info") = 0 THEN None
         ELSE OptionInfo_from(FieldOf(v[3], "info")),
         VecMember_from(FieldOf(v[3], "members")))

Element_accepts(v) ==
    /\ v[1] = "newtype_variant"
    /\ CASE v[3] = "Node" -> Node_accepts(v[4])
         [] v[3] = "Way" -> Way_accepts(v[4])
         [] v[3] = "Relation" -> Relation_accepts(v[4])
         [] OTHER -> FALSE
Element_from(v) ==
    CASE v[3] = "Node" -> Element_Node(Node_from(v[4]))
      [] v[3] = "Way" -> Element_Way(Way_from(v[4]))
      [] v[3] = "Relation" -> Element_Relation(Relation_from(v[4]))

\* Element::deserialize: Result<Element, D::Error>
Element_deserialize(v) ==
    IF Element_accepts(v) THEN Ok(Element_from(v)) ELSE Err("invalid")

\* the tables that hold the entries of m: a table built anew lays its
\* entries out by its own capacity and insertion history
Layouts(m) == {t \in TagMaps : Len(t) = Len(m) /\ Pairs(t) = Pairs(m)}

\* let s = serialize(&e)
Serialize ==
    /\ IsNone(ser)
    /\ ser' = Some(Element_serialize(e))
    /\ UNCHANGED <<de, elemVars, cloneVars, tagVars, idVars>>

\* let d: Result<Element, _> = deserialize(s)
Deserialize ==
    /\ IsSome(ser)
    /\ IsNone(de)
    /\ IF Element_accepts(Unwrap(ser))
       THEN \E t \in Layouts(Element_tags(Element_from(Unwrap(ser)))) :
                de' = Some(Ok([Element_from(Unwrap(ser)) EXCEPT !.val.tags = t]))
       ELSE de' = Some(Element_deserialize(Unwrap(ser)))
    /\ UNCHANGED <<ser, elemVars, cloneVars, tagVars, idVars>>

NextSerde ==
    \/ Serialize
    \/ Deserialize

SpecSerde == Init /\ [][NextSerde]_vars

\* C6: deserializing a serialized Element gives a value equal to the
\* original, for all three variants; an absent Info stays absent, and an
\* absent, true or false visible comes back as itself.
C6_RoundTrip ==
    IsSome(de) =>
        /\ IsOk(Unwrap(de))
        /\ LET d == Unwrap(de)[2] IN
           /\ Element_eq(d, e)
           /\ d.tag = e.tag
           /\ IsSome(Element_info(d)) <=> IsSome(Element_info(e))
           /\ IsSome(Element_info(e)) =>
                 Unwrap(Element_info(d)).visible = Unwrap(Element_info(e)).visible

\* a Relation whose Info has no visible, with two tags and two members, came back
C6_Witness ==
    /\ IsSome(de)
    /\ IsOk(Unwrap(de))
    /\ e.tag = "Relation"
    /\ IsSome(Element_info(e))
    /\ IsNone(Unwrap(Element_info(e)).visible)
    /\ Len(e.val.members) = 2
    /\ Len(e.val.tags) = 2
    /\ Unwrap(de)[2].val.tags # e.val.tags

-----------------------------------------------------------------------------
(* Tag mappings built by insertion *)

InitTags ==
    /\ e = DefaultElement
    /\ ElemIdle /\ CloneIdle /\ SerdeIdle /\ TagIdle /\ IdIdle

\* m1.insert(k, v)
Insert1 ==
    \E k \in TagKeys, v \in TagVals :
        /\ Len(m1) < MaxTags \/ IsSome(HashMap_get(m1, k))
        /\ m1' = HashMap_insert(m1, k, v)
        /\ UNCHANGED <<m2, elemVars, cloneVars, serdeVars, idVars>>

\* m2.insert(k, v)
Insert2 ==
    \E k \in TagKeys, v \in TagVals :
        /\ Len(m2) < MaxTags \/ IsSome(HashMap_get(m2, k))
        /\ m2' = HashMap_insert(m2, k, v)
        /\ UNCHANGED <<m1, elemVars, cloneVars, serdeVars, idVars>>

NextTags ==
    \/ Insert1
    \/ Insert2

SpecTags == InitTags /\ [][NextTags]_vars

\* the three kinds of record carrying the tag mapping m, all else equal
NodeWith(m) == Node(Id(7), m, None, Decimal(0, 0), Decimal(0, 0))
WayWith(m) == Way(Id(7), m, None, <<Id(5), Id(9)>>)
RelationWith(m) == Relation(Id(7), m, None, <<>>)

\* C8: equality of tag mappings, and of the records and Elements carrying
\* them, does not depend on insertion order: two mappings are equal iff they
\* hold the same key/value pairs, however they were built.
C8_TagEqOrderFree ==
    /\ HashMap_eq(m1, m2) <=> Pairs(m1) = Pairs(m2)
    /\ Node_eq(NodeWith(m1), NodeWith(m2)) <=> Pairs(m1) = Pairs(m2)
    /\ Way_eq(WayWith(m1), WayWith(m2)) <=> Pairs(m1) = Pairs(m2)
    /\ Relation_eq(RelationWith(m1), RelationWith(m2)) <=> Pairs(m1) = Pairs(m2)
    /\ Element_eq(Element_Node(NodeWith(m1)), Element_Node(NodeWith(m2)))
           <=> Pairs(m1) = Pairs(m2)

\* the same two pairs were inserted in opposite orders
C8_Witness ==
    /\ m1 = <<(<<"name", "A">>), (<<"highway", "B">>)>>
    /\ m2 = <<(<<"highway", "B">>), (<<"name", "A">>)>>
    /\ HashMap_eq(m1, m2)

-----------------------------------------------------------------------------
(* Identifiers compared *)

InitId ==
    /\ e = DefaultElement
    /\ ElemIdle /\ CloneIdle /\ SerdeIdle /\ TagIdle
    /\ ida \in IdValues /\ idb \in IdValues /\ idc \in IdValues
    /\ ord = None

\* the comparisons a.cmp(&b), b.cmp(&a), b.cmp(&c), a.cmp(&c) and a == b
Compare ==
    /\ IsNone(ord)
    /\ ord' = Some([ab |-> Id_cmp(ida, idb),
                    ba |-> Id_cmp(idb, ida),
                    bc |-> Id_cmp(idb, idc),
                    ac |-> Id_cmp(ida, idc),
                    eq |-> Id_eq(ida, idb)])
    /\ UNCHANGED <<ida, idb, idc, elemVars, cloneVars, serdeVars, tagVars>>

NextId == Compare

SpecId == InitId /\ [][NextId]_vars

\* C5: the order on Id is a total order that agrees with the order of the
\* wrapped integers, negative and zero values included, and two identifiers
\* are equal iff their wrapped values are.
C5_IdOrder ==
    IsSome(ord) =>
        LET r == Unwrap(ord)
            Le(x) == x \in {"Less", "Equal"}
        IN
        /\ r.ab = "Less" <=> ida[1] < idb[1]
        /\ r.ab = "Greater" <=> ida[1] > idb[1]
        /\ r.ab = "Equal" <=> ida[1] = idb[1]
        /\ r.eq <=> ida[1] = idb[1]
        /\ r.ab = "Less" <=> r.ba = "Greater"
        /\ (Le(r.ab) /\ Le(r.ba)) => r.eq
        /\ (Le(r.ab) /\ Le(r.bc)) => Le(r.ac)
        /\ Le(r.ab) \/ Le(r.ba)

\* Id(-1) < Id(2) < Id(3) were compared
C5_Witness ==
    /\ IsSome(ord)
    /\ ida = Id(0 - 1) /\ idb = Id(2) /\ idc = Id(3)
    /\ Unwrap(ord).ab = "Less"
    /\ Unwrap(ord).bc = "Less"
    /\ Unwrap(ord).ac = "Less"

====
